---------------------------- MODULE Spec2Model ----------------------------
(***************************************************************************)
(* A model of server/main.py: the three cron handlers of the discovery     *)
(* artifact manager (catalog sync, PHP client update, PHP client release). *)
(* Each handler is a sequential script of external commands; one action    *)
(* models one command (or one block of in-process statements between two   *)
(* commands).  A command run with check=True either succeeds or raises,    *)
(* which unwinds the handler (the temporary directories are removed by     *)
(* their `with` blocks) and ends the request with an error.                *)
(***************************************************************************)
EXTENDS Integers, Sequences, FiniteSets, TLC

(***************************************************************************)
(* Bounds of the model.                                                    *)
(***************************************************************************)
MaxDocs == 3        \* descriptor files in discoveries/ besides index.json
MaxRuns == 2        \* cron triggers of the same endpoint in one behaviour
MaxTagLen == 4      \* characters of the latest tag of the client repository
MaxPending == 1     \* commits after the latest tag when the release job starts

(***************************************************************************)
(* Strings the program compares or sorts.  Python orders str values by     *)
(* code point; IdCodes gives the code points of the ids of the model.      *)
(***************************************************************************)
IdCodes ==
  [i \in {"admin:directory_v1", "admin:datatransfer_v1", "cloudtrace:v2",
          "cloudtrace:v2beta1", "discovery:v1"} |->
     CASE i = "admin:directory_v1" ->
            <<97, 100, 109, 105, 110, 58, 100, 105, 114, 101, 99, 116, 111,
              114, 121, 95, 118, 49>>
       [] i = "admin:datatransfer_v1" ->
            <<97, 100, 109, 105, 110, 58, 100, 97, 116, 97, 116, 114, 97,
              110, 115, 102, 101, 114, 95, 118, 49>>
       [] i = "cloudtrace:v2" ->
            <<99, 108, 111, 117, 100, 116, 114, 97, 99, 101, 58, 118, 50>>
       [] i = "cloudtrace:v2beta1" ->
            <<99, 108, 111, 117, 100, 116, 114, 97, 99, 101, 58, 118, 50,
              98, 101, 116, 97, 49>>
       [] i = "discovery:v1" ->
            <<100, 105, 115, 99, 111, 118, 101, 114, 121, 58, 118, 49>>]

Ids == DOMAIN IdCodes

\* Python's str '<': the first differing code point decides; a proper
\* prefix is smaller.
RECURSIVE LexLess(_, _)
LexLess(s, t) ==
  IF t = <<>> THEN FALSE
  ELSE IF s = <<>> THEN TRUE
  ELSE IF Head(s) # Head(t) THEN Head(s) < Head(t)
  ELSE LexLess(Tail(s), Tail(t))

StrLess(a, b) == LexLess(IdCodes[a], IdCodes[b])

\* A sort in descending order.
MaxId(S) == CHOOSE a \in S : \A b \in S \ {a} : StrLess(b, a)

\* sorted(S) for a set of ids: ascending in Python's str order.
MinId(S) == CHOOSE a \in S : \A b \in S \ {a} : StrLess(a, b)

RECURSIVE sorted(_)
sorted(S) ==
  IF S = {} THEN <<>>
  ELSE LET m == MinId(S) IN <<m>> \o sorted(S \ {m})

(***************************************************************************)
(* The descriptor files.  A descriptor is the JSON of one file of          *)
(* discoveries/ (id, name, version); bin/generate_library is an external   *)
(* deterministic program, tabulated here by what it writes for each file:  *)
(* <service>.php and the directory <service>/, both with content `out`.    *)
(* cloudtrace.v2.json and tracing.v2.json carry the same id (the upstream  *)
(* defect the source comments on); cloudtrace:v2 and cloudtrace:v2beta1    *)
(* are distinct ids of one API, generated under the same service name.     *)
(***************************************************************************)
DocPool ==
  { [file |-> "cloudtrace.v2.json", id |-> "cloudtrace:v2",
     name |-> "cloudtrace", version |-> "v2",
     service |-> "CloudTrace", out |-> "c1"],
    [file |-> "tracing.v2.json", id |-> "cloudtrace:v2",
     name |-> "tracing", version |-> "v2",
     service |-> "CloudTrace", out |-> "c2"],
    [file |-> "cloudtrace.v2beta1.json", id |-> "cloudtrace:v2beta1",
     name |-> "cloudtrace", version |-> "v2beta1",
     service |-> "CloudTrace", out |-> "c2"],
    [file |-> "discovery.v1.json", id |-> "discovery:v1",
     name |-> "discovery", version |-> "v1",
     service |-> "Discovery", out |-> "c1"],
    [file |-> "admin.directory_v1.json", id |-> "admin:directory_v1",
     name |-> "admin", version |-> "directory_v1",
     service |-> "Directory", out |-> "c1"] }

\* glob.glob returns the files of the directory in arbitrary order, each
\* file once.
RECURSIVE FileLists(_)
FileLists(n) ==
  IF n = 0 THEN {<<>>}
  ELSE LET shorter == FileLists(n - 1) IN
       shorter \cup
       { Append(s, d) : s \in {x \in shorter : Len(x) = n - 1},
                        d \in DocPool }

Catalogs ==
  { s \in FileLists(MaxDocs) :
      \A i, j \in 1..Len(s) : i # j => s[i].file # s[j].file }

\* index.json: {"items": [{"id": ..., "preferred": ...}, ...]}.
Item(i, p) == [id |-> i, preferred |-> p]

IndexPool ==
  { <<Item("cloudtrace:v2", TRUE), Item("cloudtrace:v2beta1", TRUE),
      Item("discovery:v1", TRUE), Item("admin:directory_v1", FALSE)>>,
    <<Item("cloudtrace:v2", FALSE), Item("cloudtrace:v2beta1", TRUE),
      Item("discovery:v1", FALSE), Item("admin:directory_v1", TRUE)>>,
    <<Item("cloudtrace:v2", TRUE), Item("cloudtrace:v2beta1", FALSE)>>,
    <<Item("cloudtrace:v2beta1", FALSE), Item("cloudtrace:v2beta1", TRUE)>> }

(***************************************************************************)
(* The target tree src/Google/Service of google-api-php-client-services:   *)
(* per service name the content of <name>.php and of the directory <name>. *)
(***************************************************************************)
Services == {"CloudTrace", "Discovery", "Directory", "Legacy"}

Absent == "absent"

NoArtifact == [php |-> Absent, dir |-> Absent]

Artifact(c) == [php |-> c, dir |-> c]

EmptyTree == [s \in Services |-> NoArtifact]

TreePool ==
  { EmptyTree,
    [EmptyTree EXCEPT !["CloudTrace"] = Artifact("c1"),
                      !["Legacy"] = Artifact("c1")],
    [EmptyTree EXCEPT !["CloudTrace"] = Artifact("c2"),
                      !["Directory"] = Artifact("c1")] }

Last(s) == s[Len(s)]


(***************************************************************************)
(* Commits.  A commit is a snapshot of the target tree with its message;   *)
(* a message is a sequence of lines.  The per-artifact commits are made    *)
(* with -m "" (no line at all).                                            *)
(***************************************************************************)
Line(k, t) == [kind |-> k, text |-> t]

Commit(t, m) == [tree |-> t, msg |-> m]

BaseCommit(t) == Commit(t, <<Line("title", "initial import")>>)

EmptyMessage == <<>>

\* date.today().isoformat() of the day of the run.
Today == "2017-06-01"

(***************************************************************************)
(* Tags of the client repository are strings; the model writes a string    *)
(* as the sequence of its characters.  The empty sequence stands for a     *)
(* repository without any tag (git describe fails).                        *)
(***************************************************************************)
TagChars == {"v", "0", "9", ".", "-"}

RECURSIVE Strings(_)
Strings(n) ==
  IF n = 0 THEN {<<>>}
  ELSE LET shorter == Strings(n - 1) IN
       shorter \cup
       { Append(s, c) : s \in {x \in shorter : Len(x) = n - 1},
                        c \in TagChars }

TagPool == Strings(MaxTagLen)

Digits == {"0", "1", "2", "3", "4", "5", "6", "7", "8", "9"}

DigitVal(c) ==
  CASE c = "0" -> 0 [] c = "1" -> 1 [] c = "2" -> 2 [] c = "3" -> 3
    [] c = "4" -> 4 [] c = "5" -> 5 [] c = "6" -> 6 [] c = "7" -> 7
    [] c = "8" -> 8 [] c = "9" -> 9

DigitChar(d) ==
  CASE d = 0 -> "0" [] d = 1 -> "1" [] d = 2 -> "2" [] d = 3 -> "3"
    [] d = 4 -> "4" [] d = 5 -> "5" [] d = 6 -> "6" [] d = 7 -> "7"
    [] d = 8 -> "8" [] d = 9 -> "9"

\* int(s) for a non-empty string of ASCII digits (leading zeros allowed).
RECURSIVE int(_)
int(s) ==
  IF s = <<>> THEN 0
  ELSE 10 * int(SubSeq(s, 1, Len(s) - 1)) + DigitVal(s[Len(s)])

\* str(n) for n >= 0: decimal, no leading zero.
RECURSIVE str(_)
str(n) ==
  IF n < 10 THEN <<DigitChar(n)>>
  ELSE Append(str(n \div 10), DigitChar(n % 10))

AllDigits(s) == s # <<>> /\ \A i \in 1..Len(s) : s[i] \in Digits

\* version_re = ^(v[0-9]+)\.([0-9]+)$ matched against the whole tag: the
\* positions of the '.' that split it into group 1 and group 2 (at most
\* one, as neither group can hold a '.').
version_re(tag) ==
  { k \in 1..Len(tag) :
      /\ tag[k] = "."
      /\ k >= 3
      /\ tag[1] = "v"
      /\ AllDigits(SubSeq(tag, 2, k - 1))
      /\ AllDigits(SubSeq(tag, k + 1, Len(tag))) }

Matches(tag) == version_re(tag) # {}

Group1(tag) == SubSeq(tag, 1, (CHOOSE k \in version_re(tag) : TRUE) - 1)

Group2(tag) ==
  SubSeq(tag, (CHOOSE k \in version_re(tag) : TRUE) + 1, Len(tag))

\* The increment done on the string: '9' + '1'.
NewMinorAppendsOne(tag) == Append(Group2(tag), "1")

\* new_minor_revision = str(int(minor_revision) + 1)
NewMinor(tag) == str(int(Group2(tag)) + 1)

\* version_re.sub(r'\1.<new minor>', latest_tag): the one match is the
\* whole tag, replaced by group 1, a '.', and the new minor revision.
NewVersion(tag) == Group1(tag) \o <<".">> \o NewMinor(tag)

(***************************************************************************)
(* The preferred dict of the update job.                                   *)
(***************************************************************************)
EmptyDict == [i \in {} |-> TRUE]

Put(d, k, v) == [x \in DOMAIN d \cup {k} |-> IF x = k THEN v ELSE d[x]]

\* for api in root['items']: preferred[api['id']] = api['preferred']
RECURSIVE FromItems(_)
FromItems(items) ==
  IF items = <<>> THEN EmptyDict
  ELSE LET it == items[Len(items)] IN
       Put(FromItems(SubSeq(items, 1, Len(items) - 1)), it.id, it.preferred)

\* The two entries forced to True after the index is read.
LoadPreferred(items) ==
  Put(Put(FromItems(items), "admin:directory_v1", TRUE),
      "admin:datatransfer_v1", TRUE)

(***************************************************************************)
(* The aggregate commit message.                                           *)
(***************************************************************************)
Items(S) == LET l == sorted(S) IN [i \in 1..Len(l) |-> Line("item", l[i])]

Section(title, S) ==
  IF S # {} THEN <<Line("blank", ""), Line("header", title)>> \o Items(S)
  ELSE <<>>

CommitMsg(add, upd) ==
  <<Line("title", Today)>> \o Section("Add:", add) \o Section("Update:", upd)

(***************************************************************************)
(* State.                                                                  *)
(*   job, pc, runs       the endpoint under study, the position of the     *)
(*                       current request in its handler, requests so far   *)
(*   header              whether the current request carries the           *)
(*                       X-Appengine-Cron header                           *)
(*   failedAt, cmdFailed the step that raised; whether a command run with  *)
(*                       check=True has exited non-zero in this request    *)
(*   prev                how the previous request ended                    *)
(*   log                 what the current request has written to the log   *)
(*                       streams of the server (stdout and stderr)         *)
(*   catalog, indexItems discoveries/*.json and index.json of the catalog  *)
(*                       repository (remote)                               *)
(*   remoteHist          the branch of the client repository (remote)      *)
(*   remoteTag, remotePending  its latest tag and the commits after it     *)
(*   landed, releases    commits that have landed on that branch after the *)
(*                       tag the behaviour starts with; the tags pushed    *)
(*   dmRemote            commits of the catalog repository (remote)        *)
(*   rival               a second request of the same endpoint that        *)
(*                       overlaps with the current one: the head it cloned *)
(*                       and how its push ended                            *)
(*   the other variables are the locals of the handlers and the clone in   *)
(*   the temporary directory; events, clonedLen, resetBy, pushed, pushes   *)
(*   record what a request did (history variables).                        *)
(***************************************************************************)
VARIABLES
  job, header, pc, runs, failedAt, cmdFailed, prev, log,
  catalog, indexItems, remoteHist, remoteTag, remotePending, dmRemote,
  landed, releases, rival,
  account, tmp_dir, tmp_dir2,
  preferred, filenames, idx, processed, added, updated, commit_count,
  returncode,
  scratch, service_name, service_exists,
  tree, staged, hist, remote_github, commitmsg,
  cloneTag, ahead, latest_tag, output, new_version, tags,
  dmLocal, dmDirty,
  events, clonedLen, resetBy, pushed, pushes

req == <<job, header>>
ctl == <<req, pc, runs, failedAt, cmdFailed, prev, log>>
env ==
  <<catalog, indexItems, remoteHist, remoteTag, remotePending, dmRemote,
    landed, releases, rival>>
scopes == <<account, tmp_dir, tmp_dir2>>
loopVars ==
  <<preferred, filenames, idx, processed, added, updated, commit_count,
    returncode>>
artVars == <<scratch, service_name, service_exists>>
repoVars == <<tree, staged, hist, remote_github, commitmsg>>
relVars == <<cloneTag, ahead, latest_tag, output, new_version, tags>>
syncVars == <<dmLocal, dmDirty>>
ghostVars == <<events, clonedLen, resetBy, pushed, pushes>>

vars ==
  <<ctl, env, scopes, loopVars, artVars, repoVars, relVars, syncVars,
    ghostVars>>

Jobs == {"discoveries", "update", "release"}

EndStates == {"done", "aborted", "rejected"}

NoScratch == [service |-> "", php |-> Absent, dir |-> Absent]

NoPrev == [pc |-> "idle", pushed |-> FALSE]

NoRival == [base |-> 0, end |-> ""]

\* The locals of a handler before its first statement.
FreshLocals ==
  /\ account = FALSE /\ tmp_dir = FALSE /\ tmp_dir2 = FALSE
  /\ preferred = EmptyDict /\ filenames = <<>> /\ idx = 0
  /\ processed = {} /\ added = {} /\ updated = {}
  /\ commit_count = 0 /\ returncode = -1
  /\ scratch = NoScratch /\ service_name = "" /\ service_exists = FALSE
  /\ tree = EmptyTree /\ staged = EmptyTree /\ hist = <<>>
  /\ remote_github = FALSE /\ commitmsg = <<>>
  /\ cloneTag = <<>> /\ ahead = 0
  /\ latest_tag = <<>> /\ output = 0 /\ new_version = <<>> /\ tags = {}
  /\ dmLocal = 0 /\ dmDirty = FALSE
  /\ events = <<>> /\ clonedLen = 0 /\ resetBy = -1 /\ pushed = FALSE
  /\ pushes = <<>>
  /\ failedAt = "" /\ cmdFailed = FALSE /\ log = {}

\* The same, as the effect of starting a new request.
ResetLocals ==
  /\ account' = FALSE /\ tmp_dir' = FALSE /\ tmp_dir2' = FALSE
  /\ preferred' = EmptyDict /\ filenames' = <<>> /\ idx' = 0
  /\ processed' = {} /\ added' = {} /\ updated' = {}
  /\ commit_count' = 0 /\ returncode' = -1
  /\ scratch' = NoScratch /\ service_name' = "" /\ service_exists' = FALSE
  /\ tree' = EmptyTree /\ staged' = EmptyTree /\ hist' = <<>>
  /\ remote_github' = FALSE /\ commitmsg' = <<>>
  /\ cloneTag' = <<>> /\ ahead' = 0
  /\ latest_tag' = <<>> /\ output' = 0 /\ new_version' = <<>> /\ tags' = {}
  /\ dmLocal' = 0 /\ dmDirty' = FALSE
  /\ events' = <<>> /\ clonedLen' = 0 /\ resetBy' = -1 /\ pushed' = FALSE
  /\ pushes' = <<>>
  /\ failedAt' = "" /\ cmdFailed' = FALSE /\ log' = {}

Init ==
  /\ job \in Jobs
  /\ header = FALSE
  /\ pc = "idle" /\ runs = 0 /\ prev = NoPrev
  /\ IF job = "update"
     THEN /\ catalog \in Catalogs
          /\ indexItems \in IndexPool
          /\ \E t \in TreePool : remoteHist = <<BaseCommit(t)>>
     ELSE /\ catalog = <<>>
          /\ indexItems = <<>>
          /\ remoteHist = <<BaseCommit(EmptyTree)>>
  /\ IF job = "release"
     THEN /\ remoteTag \in TagPool
          /\ remotePending \in 0..MaxPending
     ELSE /\ remoteTag = <<>>
          /\ remotePending = 0
  /\ dmRemote = 1
  /\ landed = remotePending /\ releases = <<>>
  /\ rival = NoRival
  /\ FreshLocals

(***************************************************************************)
(* Control flow shared by the handlers.                                    *)
(***************************************************************************)
\* The commands run with stdout=_DEVNULL, stderr=_DEVNULL.
Discarded(step) == step \in {"git remote add", "git push", "git push --tags"}

\* A child process writes to the streams it inherits from the server,
\* unless they are redirected.
Output(step) ==
  IF Discarded(step) THEN {} ELSE {[kind |-> "output", of |-> step]}

\* An exception that leaves the handler is logged by the application with
\* its message; the message of the CalledProcessError of check_call holds
\* the command line it was given.
Traceback(step) == {[kind |-> "exception", of |-> step]}

\* The command line of git remote add holds remote_url, and with it the
\* personal access token.
CmdHasToken(step) == step = "git remote add"

\* What the commands that work on the remote github print may hold its URL.
OutputHasToken(step) ==
  step \in {"git remote add", "git push", "git push --tags"}

\* _call without check=True: the exit status is dropped.
call_nocheck(ok, next, step) ==
  /\ pc' = next
  /\ failedAt' = failedAt
  /\ cmdFailed' = (cmdFailed \/ ~ok)
  /\ log' = log \cup Output(step)

\* _call(cmd, check=True): subprocess.check_call raises on a non-zero exit
\* status, which ends the request; otherwise the handler goes on.
call_check(ok, next, step) ==
  /\ pc' = IF ok THEN next ELSE "aborted"
  /\ failedAt' = IF ok THEN failedAt ELSE step
  /\ cmdFailed' = (cmdFailed \/ ~ok)
  /\ log' = log \cup Output(step) \cup (IF ok THEN {} ELSE Traceback(step))

\* _call(cmd) whose exit status the handler reads itself.
call_status(next, step) ==
  /\ pc' = next
  /\ log' = log \cup Output(step)
  /\ UNCHANGED <<failedAt, cmdFailed>>

\* An exception raised by the handler's own statements.
Raise(step) ==
  /\ pc' = "aborted"
  /\ failedAt' = step
  /\ cmdFailed' = cmdFailed
  /\ log' = log \cup Traceback(step)

Goto(next) ==
  /\ pc' = next
  /\ UNCHANGED <<failedAt, cmdFailed, log>>

\* Directories made with mkdtemp, which nothing removes.
WithoutCleanup(d1, d2) ==
  /\ tmp_dir' = d1
  /\ tmp_dir2' = d2

\* `with TemporaryDirectory()`: the directory is removed when the block is
\* left, by return or by exception; d1 and d2 say which exist otherwise.
With(d1, d2) ==
  /\ tmp_dir' = IF pc' \in EndStates THEN FALSE ELSE d1
  /\ tmp_dir2' = IF pc' \in EndStates THEN FALSE ELSE d2

\* A handler that does not look at the header.
AdmitAll(h) == "account"

\* if request.headers.get('X-Appengine-Cron') is None: abort(403)
Admit(h) == IF h THEN "account" ELSE "rejected"

\* A cron request arrives; without the X-Appengine-Cron header it is
\* answered 403 before anything else.
Trigger ==
  /\ pc \in {"idle"} \cup EndStates
  /\ runs < MaxRuns
  /\ runs' = runs + 1
  /\ prev' = [pc |-> pc, pushed |-> pushed]
  /\ ResetLocals
  /\ header' \in BOOLEAN
  /\ pc' = Admit(header')
  /\ UNCHANGED <<job, env>>

\* account = _get_github_account(), then the handler enters its
\* TemporaryDirectory block.
GetAccount ==
  /\ pc = "account"
  /\ \E ok \in BOOLEAN :
       /\ IF ok THEN Goto("clone") ELSE Raise("_get_github_account")
       /\ account' = ok
  /\ With(TRUE, FALSE)
  /\ UNCHANGED <<req, runs, prev, env, loopVars, artVars, repoVars, relVars,
                 syncVars, ghostVars>>

(***************************************************************************)
(* cron_clients_php_update                                                 *)
(***************************************************************************)
\* git clone .../discovery-artifact-manager
UpdCloneCatalog ==
  /\ job = "update" /\ pc = "clone"
  /\ \E ok \in BOOLEAN : call_check(ok, "u_clone_client", "git clone")
  /\ With(tmp_dir, tmp_dir2)
  /\ UNCHANGED <<req, runs, prev, env, account, loopVars, artVars, repoVars,
                 relVars, syncVars, ghostVars>>

\* git clone .../google-api-php-client-services
UpdCloneClient ==
  /\ job = "update" /\ pc = "u_clone_client"
  /\ \E ok \in BOOLEAN :
       /\ call_check(ok, "u_load", "git clone")
       /\ hist' = IF ok THEN remoteHist ELSE hist
       /\ tree' = IF ok THEN Last(remoteHist).tree ELSE tree
       /\ staged' = IF ok THEN Last(remoteHist).tree ELSE staged
       /\ clonedLen' = IF ok THEN Len(remoteHist) ELSE clonedLen
  /\ With(tmp_dir, tmp_dir2)
  /\ UNCHANGED <<req, runs, prev, env, account, loopVars, artVars,
                 remote_github, commitmsg, relVars, syncVars, events,
                 resetBy, pushed, pushes>>

\* The index is read into `preferred`, the two overrides are applied, and
\* the descriptor files are globbed (index.json left out).
UpdLoadCatalog ==
  /\ job = "update" /\ pc = "u_load"
  /\ preferred' = LoadPreferred(indexItems)
  /\ filenames' = catalog
  /\ Goto("u_virtualenv")
  /\ With(tmp_dir, tmp_dir2)
  /\ UNCHANGED <<req, runs, prev, env, account, idx, processed, added,
                 updated, commit_count, returncode, artVars, repoVars,
                 relVars, syncVars, ghostVars>>

\* virtualenv /tmp/venv
UpdVirtualenv ==
  /\ job = "update" /\ pc = "u_virtualenv"
  /\ \E ok \in BOOLEAN : call_check(ok, "u_install", "virtualenv")
  /\ With(tmp_dir, tmp_dir2)
  /\ UNCHANGED <<req, runs, prev, env, account, loopVars, artVars, repoVars,
                 relVars, syncVars, ghostVars>>

\* python setup.py install, followed by the initialisation of the run
\* state (which FreshLocals already gives).
UpdInstall ==
  /\ job = "update" /\ pc = "u_install"
  /\ \E ok \in BOOLEAN : call_check(ok, "u_loop", "setup.py install")
  /\ With(tmp_dir, tmp_dir2)
  /\ UNCHANGED <<req, runs, prev, env, account, loopVars, artVars, repoVars,
                 relVars, syncVars, ghostVars>>

\* A loop without the dedup guard.
SeenNever(id_, proc) == FALSE

\* if id_ in processed: continue
Seen(id_, proc) == id_ \in proc

\* The filter without its preferred test.
VerdictNameOnly(d, pref) ==
  IF d.name = "discovery" THEN "skip_discovery" ELSE "generate"

\* The exclusion filter: name == 'discovery', then `not preferred[id_]`
\* (a KeyError when the index has no entry for the id).
Verdict(d, pref) ==
  IF d.name = "discovery" THEN "skip_discovery"
  ELSE IF d.id \notin DOMAIN pref THEN "KeyError"
  ELSE IF ~pref[d.id] THEN "skip_not_preferred"
  ELSE "generate"

Event(i, w) == [i |-> i, what |-> w]

\* An aggregation that does not look at returncode.
AggregatesAlways(rc) == TRUE

\* `if not returncode:` after the loop.
Aggregates(rc) == rc = 0

\* The head of the for loop up to the next command: the next descriptor
\* is parsed, deduplicated and filtered; a descriptor that passes gets its
\* scratch directory.  When the files are exhausted the handler returns if
\* returncode is non-zero, and goes on to the aggregation otherwise.
UpdLoopNext ==
  /\ job = "update" /\ pc = "u_loop"
  /\ IF idx < Len(filenames)
     THEN LET d == filenames[idx + 1] IN
          /\ idx' = idx + 1
          /\ IF Seen(d.id, processed)
             THEN /\ Goto("u_loop")
                  /\ events' = Append(events, Event(idx + 1, "duplicate"))
                  /\ UNCHANGED processed
             ELSE LET v == Verdict(d, preferred) IN
                  /\ processed' = processed \cup {d.id}
                  /\ IF v = "generate" THEN Goto("u_generate")
                     ELSE IF v = "KeyError" THEN Raise("KeyError")
                     ELSE Goto("u_loop")
                  /\ events' = IF v = "generate" THEN events
                               ELSE Append(events, Event(idx + 1, v))
          /\ With(tmp_dir, pc' = "u_generate")
     ELSE /\ IF Aggregates(returncode) THEN Goto("u_reset") ELSE Goto("done")
          /\ With(tmp_dir, tmp_dir2)
          /\ UNCHANGED <<idx, processed, events>>
  /\ UNCHANGED <<req, runs, prev, env, account, preferred, filenames, added,
                 updated, commit_count, returncode, artVars, repoVars,
                 relVars, syncVars, clonedLen, resetBy, pushed, pushes>>

\* What bin/generate_library writes into the scratch directory.
Generate(d) == [service |-> d.service, php |-> d.out, dir |-> d.out]

UpdGenerate ==
  /\ job = "update" /\ pc = "u_generate"
  /\ events' = Append(events, Event(idx, "invoke"))
  /\ \E ok \in BOOLEAN :
       /\ call_check(ok, "u_rm", "generate_library")
       /\ scratch' = IF ok THEN Generate(filenames[idx]) ELSE scratch
  /\ With(tmp_dir, tmp_dir2)
  /\ UNCHANGED <<req, runs, prev, env, account, loopVars, service_name,
                 service_exists, repoVars, relVars, syncVars, clonedLen,
                 resetBy, pushed, pushes>>

\* os.path.exists(service_dir/<name>.php)
Exists(t, name) == t[name].php # Absent

\* A removal of the file alone.
RemovedFileOnly(t, name) == [t EXCEPT ![name].php = Absent]

\* rm -rf <name>.php <name>: the file and the directory are gone.
Removed(t, name) == [t EXCEPT ![name] = NoArtifact]

\* cp -r <src> <service_dir>: into a directory that is already there the
\* copy adds and overwrites files and removes none, which leaves a mix of
\* the two unless they hold the same.
CopiedInto(old, new) ==
  IF old = Absent \/ old = new THEN new ELSE "mixed"

\* service_name and service_exists are taken, then
\* rm -rf <name>.php <name> in the target tree.
UpdRemove ==
  /\ job = "update" /\ pc = "u_rm"
  /\ service_name' = scratch.service
  /\ service_exists' = Exists(tree, scratch.service)
  /\ \E ok \in BOOLEAN :
       /\ call_check(ok, "u_cp_file", "rm -rf")
       /\ tree' = IF ok THEN Removed(tree, scratch.service) ELSE tree
  /\ With(tmp_dir, tmp_dir2)
  /\ UNCHANGED <<req, runs, prev, env, account, loopVars, scratch, staged,
                 hist, remote_github, commitmsg, relVars, syncVars,
                 ghostVars>>

\* cp /tmp2/<name>.php <service_dir>
UpdCopyFile ==
  /\ job = "update" /\ pc = "u_cp_file"
  /\ \E ok \in BOOLEAN :
       /\ call_check(ok, "u_cp_dir", "cp")
       /\ tree' = IF ok THEN [tree EXCEPT ![service_name].php = scratch.php]
                  ELSE tree
  /\ With(tmp_dir, tmp_dir2)
  /\ UNCHANGED <<req, runs, prev, env, account, loopVars, artVars, staged,
                 hist, remote_github, commitmsg, relVars, syncVars,
                 ghostVars>>

\* cp -r /tmp2/<name> <service_dir>; the scratch directory is then left.
UpdCopyDir ==
  /\ job = "update" /\ pc = "u_cp_dir"
  /\ \E ok \in BOOLEAN :
       /\ call_check(ok, "u_add", "cp -r")
       /\ tree' = IF ok
                  THEN [tree EXCEPT ![service_name].dir =
                                      CopiedInto(@, scratch.dir)]
                  ELSE tree
  /\ With(tmp_dir, FALSE)
  /\ UNCHANGED <<req, runs, prev, env, account, loopVars, artVars, staged,
                 hist, remote_github, commitmsg, relVars, syncVars,
                 ghostVars>>

\* git add src
UpdGitAdd ==
  /\ job = "update" /\ pc = "u_add"
  /\ \E ok \in BOOLEAN :
       /\ call_check(ok, "u_commit", "git add")
       /\ staged' = IF ok THEN tree ELSE staged
  /\ With(tmp_dir, tmp_dir2)
  /\ UNCHANGED <<req, runs, prev, env, account, loopVars, artVars, tree,
                 hist, remote_github, commitmsg, relVars, syncVars,
                 ghostVars>>

\* git commit exits 0 when the index differs from HEAD, and 1 ("nothing to
\* commit") when it does not.
CommitStatus(index, h) == IF index # Last(h).tree THEN 0 ELSE 1

\* A commit that is counted without its id being recorded.
ClassNone(exists) == "none"

\* if not service_exists: added.add(id_) else: updated.add(id_)
Class(exists) == IF ~exists THEN "added" ELSE "updated"

\* git commit -a --allow-empty-message -m "" without check: on exit
\* status 0 the commit is counted and the id classified.
UpdCommit ==
  /\ job = "update" /\ pc = "u_commit"
  /\ LET id_ == filenames[idx].id IN
     IF CommitStatus(staged, hist) = 0
     THEN /\ hist' = Append(hist, Commit(staged, EmptyMessage))
          /\ commit_count' = commit_count + 1
          /\ added' = IF Class(service_exists) = "added"
                      THEN added \cup {id_} ELSE added
          /\ updated' = IF Class(service_exists) = "updated"
                        THEN updated \cup {id_} ELSE updated
          /\ returncode' = 0
     ELSE UNCHANGED <<hist, commit_count, added, updated, returncode>>
  /\ call_status("u_loop", "git commit")
  /\ With(tmp_dir, tmp_dir2)
  /\ UNCHANGED <<req, runs, prev, env, account, preferred, filenames, idx,
                 processed, artVars, tree, staged, remote_github, commitmsg,
                 relVars, syncVars, ghostVars>>

\* git reset --soft HEAD~n: the branch moves back n commits, the index and
\* the working tree stay.
ResetSoft(h, n) == SubSeq(h, 1, Len(h) - n)

UpdReset ==
  /\ job = "update" /\ pc = "u_reset"
  /\ \E ok \in BOOLEAN :
       /\ call_check(ok, "u_aggregate", "git reset")
       /\ hist' = IF ok THEN ResetSoft(hist, commit_count) ELSE hist
       /\ resetBy' = IF ok THEN commit_count ELSE resetBy
  /\ With(tmp_dir, tmp_dir2)
  /\ UNCHANGED <<req, runs, prev, env, account, loopVars, artVars, tree,
                 staged, remote_github, commitmsg, relVars, syncVars, events,
                 clonedLen, pushed, pushes>>

\* The message is built, then git commit -a -m <message> with check=True:
\* it exits non-zero when the index equals HEAD.
UpdAggregate ==
  /\ job = "update" /\ pc = "u_aggregate"
  /\ commitmsg' = CommitMsg(added, updated)
  /\ \E ok \in BOOLEAN :
       LET done == ok /\ CommitStatus(staged, hist) = 0 IN
       /\ call_check(done, "u_remote",
                     IF CommitStatus(staged, hist) = 0 THEN "git commit"
                     ELSE "git commit: nothing to commit")
       /\ hist' = IF done THEN Append(hist, Commit(staged, commitmsg'))
                  ELSE hist
  /\ With(tmp_dir, tmp_dir2)
  /\ UNCHANGED <<req, runs, prev, env, account, loopVars, artVars, tree,
                 staged, remote_github, relVars, syncVars, ghostVars>>

\* git remote add github https://<user>:<token>@github.com/...
UpdRemoteAdd ==
  /\ job = "update" /\ pc = "u_remote"
  /\ \E ok \in BOOLEAN :
       /\ call_check(ok, "u_push", "git remote add")
       /\ remote_github' = ok
  /\ With(tmp_dir, tmp_dir2)
  /\ UNCHANGED <<req, runs, prev, env, account, loopVars, artVars, tree,
                 staged, hist, commitmsg, relVars, syncVars, ghostVars>>

\* A push with --force.
FastForwardAlways(r, h) == TRUE

\* git push updates the branch of the remote only by a fast-forward: the
\* history r of the remote must be the beginning of the history h pushed;
\* otherwise the push is rejected and git exits non-zero.
FastForward(r, h) == Len(r) <= Len(h) /\ SubSeq(h, 1, Len(r)) = r

\* How a push ends: it fails for an outside reason (ok is false), or the
\* remote accepts or rejects it; git exits 0 only when it is accepted.
PushResult(ok, ff) ==
  IF ~ok THEN "failed" ELSE IF ff THEN "accepted" ELSE "rejected"

\* git push github: the remote branch becomes the local one; the handler
\* then returns ''.
UpdPush ==
  /\ job = "update" /\ pc = "u_push"
  /\ \E ok \in BOOLEAN :
       LET result == PushResult(ok, FastForward(remoteHist, hist))
           done == result = "accepted" IN
       /\ call_check(done, "done", "git push")
       /\ remoteHist' = IF done THEN hist ELSE remoteHist
       /\ pushed' = done
       /\ pushes' = Append(pushes, result)
  /\ With(tmp_dir, tmp_dir2)
  /\ UNCHANGED <<req, runs, prev, catalog, indexItems, remoteTag,
                 remotePending, dmRemote, landed, releases, rival, account,
                 loopVars, artVars, repoVars, relVars, syncVars, events,
                 clonedLen, resetBy>>

(***************************************************************************)
(* cron_clients_php_release                                                *)
(***************************************************************************)
\* git clone .../google-api-php-client-services
RelClone ==
  /\ job = "release" /\ pc = "clone"
  /\ \E ok \in BOOLEAN :
       /\ call_check(ok, "r_describe", "git clone")
       /\ cloneTag' = IF ok THEN remoteTag ELSE cloneTag
       /\ ahead' = IF ok THEN remotePending ELSE ahead
  /\ With(tmp_dir, tmp_dir2)
  /\ UNCHANGED <<req, runs, prev, env, account, loopVars, artVars, repoVars,
                 latest_tag, output, new_version, tags, syncVars, ghostVars>>

\* git describe --tags --abbrev=0 (check_output): the latest tag; it fails
\* in a repository without tags.
RelDescribe ==
  /\ job = "release" /\ pc = "r_describe"
  /\ \E ok \in BOOLEAN :
       LET done == ok /\ cloneTag # <<>> IN
       /\ call_check(done, "r_log", "git describe")
       /\ latest_tag' = IF done THEN cloneTag ELSE latest_tag
  /\ With(tmp_dir, tmp_dir2)
  /\ UNCHANGED <<req, runs, prev, env, account, loopVars, artVars, repoVars,
                 cloneTag, ahead, output, new_version, tags, syncVars,
                 ghostVars>>

\* git log <latest_tag>..HEAD --oneline (check_output): one line per commit
\* after the tag; the model keeps the number of lines.
RelLog ==
  /\ job = "release" /\ pc = "r_log"
  /\ \E ok \in BOOLEAN :
       /\ call_check(ok, "r_version", "git log")
       /\ output' = IF ok THEN ahead ELSE output
  /\ With(tmp_dir, tmp_dir2)
  /\ UNCHANGED <<req, runs, prev, env, account, loopVars, artVars, repoVars,
                 cloneTag, ahead, latest_tag, new_version, tags, syncVars,
                 ghostVars>>

\* A release job that tags whether or not a commit follows the tag.
HasCommitsAlways(out) == TRUE

\* `if output:` on the bytes git log printed: true when at least one
\* commit follows the tag.
HasCommits(out) == out # 0

\* A release step that falls back to v0.1 for a tag it cannot parse.
RelVersionFallback ==
  /\ job = "release" /\ pc = "r_version"
  /\ IF ~HasCommits(output)
     THEN Goto("done") /\ UNCHANGED new_version
     ELSE Goto("r_tag")
          /\ new_version' = IF Matches(latest_tag) THEN NewVersion(latest_tag)
                            ELSE <<"v", "0", ".", "1">>
  /\ With(tmp_dir, tmp_dir2)
  /\ UNCHANGED <<req, runs, prev, env, account, loopVars, artVars, repoVars,
                 cloneTag, ahead, latest_tag, output, tags, syncVars,
                 ghostVars>>

\* if output: the tag is matched against version_re (an Exception when it
\* does not match) and the new version computed; without output the
\* handler returns.
RelVersion ==
  /\ job = "release" /\ pc = "r_version"
  /\ IF ~HasCommits(output)
     THEN Goto("done") /\ UNCHANGED new_version
     ELSE IF ~Matches(latest_tag)
     THEN Raise("latest tag does not match the pattern")
          /\ UNCHANGED new_version
     ELSE Goto("r_tag") /\ new_version' = NewVersion(latest_tag)
  /\ With(tmp_dir, tmp_dir2)
  /\ UNCHANGED <<req, runs, prev, env, account, loopVars, artVars, repoVars,
                 cloneTag, ahead, latest_tag, output, tags, syncVars,
                 ghostVars>>

\* git tag <new_version>
RelTag ==
  /\ job = "release" /\ pc = "r_tag"
  /\ \E ok \in BOOLEAN :
       /\ call_check(ok, "r_remote", "git tag")
       /\ tags' = IF ok THEN tags \cup {new_version} ELSE tags
  /\ With(tmp_dir, tmp_dir2)
  /\ UNCHANGED <<req, runs, prev, env, account, loopVars, artVars, repoVars,
                 cloneTag, ahead, latest_tag, output, new_version, syncVars,
                 ghostVars>>

\* git remote add github https://<user>:<token>@github.com/...
RelRemoteAdd ==
  /\ job = "release" /\ pc = "r_remote"
  /\ \E ok \in BOOLEAN :
       /\ call_check(ok, "r_push", "git remote add")
       /\ remote_github' = ok
  /\ With(tmp_dir, tmp_dir2)
  /\ UNCHANGED <<req, runs, prev, env, account, loopVars, artVars, tree,
                 staged, hist, commitmsg, relVars, syncVars, ghostVars>>

Release(from, to, n) == [from |-> from, to |-> to, batch |-> n]

\* git push github --tags: the tag made at the cloned HEAD becomes the
\* latest tag of the remote; the commits after it are those that landed
\* since the clone.
RelPush ==
  /\ job = "release" /\ pc = "r_push"
  /\ \E ok \in BOOLEAN :
       /\ call_check(ok, "done", "git push --tags")
       /\ remoteTag' = IF ok THEN new_version ELSE remoteTag
       /\ remotePending' = IF ok THEN remotePending - ahead
                           ELSE remotePending
       /\ releases' = IF ok
                      THEN Append(releases,
                                  Release(latest_tag, new_version, ahead))
                      ELSE releases
       /\ pushed' = ok
       /\ pushes' = Append(pushes, PushResult(ok, TRUE))
  /\ With(tmp_dir, tmp_dir2)
  /\ UNCHANGED <<req, runs, prev, catalog, indexItems, remoteHist, dmRemote,
                 landed, rival, account, loopVars, artVars, repoVars,
                 relVars, syncVars, events, clonedLen, resetBy>>

\* A commit lands on the branch of the client repository (pushed by an
\* update run or by a person); the next git log <tag>..HEAD of a fresh clone
\* lists it.
Land ==
  /\ job = "release"
  /\ landed <= MaxPending
  /\ landed' = landed + 1
  /\ remotePending' = remotePending + 1
  /\ UNCHANGED <<ctl, catalog, indexItems, remoteHist, remoteTag, dmRemote,
                 releases, rival, scopes, loopVars, artVars, repoVars, relVars,
                 syncVars, ghostVars>>

(***************************************************************************)
(* cron_discoveries                                                        *)
(***************************************************************************)
\* mkdir -p /tmp/go/src, then git clone .../discovery-artifact-manager
SyncClone ==
  /\ job = "discoveries" /\ pc = "clone"
  /\ \E ok \in BOOLEAN :
       /\ call_check(ok, "s_ln", "git clone")
       /\ dmLocal' = IF ok THEN dmRemote ELSE dmLocal
       /\ clonedLen' = IF ok THEN dmRemote ELSE clonedLen
  /\ With(tmp_dir, tmp_dir2)
  /\ UNCHANGED <<req, runs, prev, env, account, loopVars, artVars, repoVars,
                 relVars, dmDirty, events, resetBy, pushed, pushes>>

\* ln -s <clone>/src /tmp/go/src/discovery-artifact-manager
SyncSymlink ==
  /\ job = "discoveries" /\ pc = "s_ln"
  /\ \E ok \in BOOLEAN : call_check(ok, "s_go", "ln -s")
  /\ With(tmp_dir, tmp_dir2)
  /\ UNCHANGED <<req, runs, prev, env, account, loopVars, artVars, repoVars,
                 relVars, syncVars, ghostVars>>

\* go run src/main/updatedisco/main.go: the catalog is regenerated, and
\* differs from the checked-in copy or not.
SyncGenerate ==
  /\ job = "discoveries" /\ pc = "s_go"
  /\ \E ok \in BOOLEAN :
       /\ call_check(ok, "s_add", "go run")
       /\ IF ok THEN dmDirty' \in BOOLEAN ELSE dmDirty' = dmDirty
  /\ With(tmp_dir, tmp_dir2)
  /\ UNCHANGED <<req, runs, prev, env, account, loopVars, artVars, repoVars,
                 relVars, dmLocal, ghostVars>>

\* git add discoveries
SyncGitAdd ==
  /\ job = "discoveries" /\ pc = "s_add"
  /\ \E ok \in BOOLEAN : call_check(ok, "s_commit", "git add")
  /\ With(tmp_dir, tmp_dir2)
  /\ UNCHANGED <<req, runs, prev, env, account, loopVars, artVars, repoVars,
                 relVars, syncVars, ghostVars>>

\* A commit step that reports success whatever is staged.
SyncStatusZero(dirty) == 0

\* The exit status of git commit: 0 when discoveries/ as staged differs
\* from HEAD, 1 (nothing to commit) when it does not.
SyncStatus(dirty) == IF dirty THEN 0 ELSE 1

\* git commit -m "Autogenerated Discovery document update" without check;
\* the handler returns when the exit status is non-zero.
SyncCommit ==
  /\ job = "discoveries" /\ pc = "s_commit"
  /\ returncode' = SyncStatus(dmDirty)
  /\ dmLocal' = IF dmDirty THEN dmLocal + 1 ELSE dmLocal
  /\ call_status(IF returncode' = 0 THEN "s_remote" ELSE "done", "git commit")
  /\ With(tmp_dir, tmp_dir2)
  /\ UNCHANGED <<req, runs, prev, env, account, preferred, filenames, idx,
                 processed, added, updated, commit_count, artVars, repoVars,
                 relVars, dmDirty, ghostVars>>

\* git remote add github https://<user>:<token>@github.com/...
SyncRemoteAdd ==
  /\ job = "discoveries" /\ pc = "s_remote"
  /\ \E ok \in BOOLEAN :
       /\ call_check(ok, "s_push", "git remote add")
       /\ remote_github' = ok
  /\ With(tmp_dir, tmp_dir2)
  /\ UNCHANGED <<req, runs, prev, env, account, loopVars, artVars, tree,
                 staged, hist, commitmsg, relVars, syncVars, ghostVars>>

\* The history of the catalog repository with n commits, as this request
\* sees it: the commits it cloned, then those of `who`.
Counted(n, who) == [i \in 1..n |-> IF i <= clonedLen THEN "cloned" ELSE who]

\* git push github
SyncPush ==
  /\ job = "discoveries" /\ pc = "s_push"
  /\ \E ok \in BOOLEAN :
       LET result == PushResult(ok, FastForward(Counted(dmRemote, "other"),
                                                Counted(dmLocal, "own")))
           done == result = "accepted" IN
       /\ call_check(done, "done", "git push")
       /\ dmRemote' = IF done THEN dmLocal ELSE dmRemote
       /\ pushed' = done
       /\ pushes' = Append(pushes, result)
  /\ With(tmp_dir, tmp_dir2)
  /\ UNCHANGED <<req, runs, prev, catalog, indexItems, remoteHist, remoteTag,
                 remotePending, landed, releases, rival, account, loopVars,
                 artVars, repoVars, relVars, syncVars, events, clonedLen,
                 resetBy>>

(***************************************************************************)
(* A second request of the same endpoint that overlaps with the current    *)
(* one.  It runs the same handler in its own temporary directory, so of    *)
(* its steps only two meet the current request: its clone, which reads the *)
(* head of the remote, and its push of the cloned history plus one commit. *)
(***************************************************************************)
\* The aggregate commit of the other request (it cloned the catalog at
\* another moment, and generated Directory with other content).
RivalCommit(t) ==
  Commit([t EXCEPT !["Directory"] = Artifact("c2")],
         CommitMsg({}, {"admin:directory_v1"}))

\* The other request clones the head the current request has cloned.
RivalClone ==
  /\ job \in {"update", "discoveries"}
  /\ pc \notin EndStates \cup {"idle"}
  /\ clonedLen > 0
  /\ rival.base = 0 \/ rival.end # ""
  /\ IF job = "update"
     THEN /\ Len(remoteHist) = clonedLen
          /\ RivalCommit(Last(remoteHist).tree).tree # Last(remoteHist).tree
     ELSE dmRemote = clonedLen
  /\ rival' = [base |-> clonedLen, end |-> ""]
  /\ UNCHANGED <<ctl, catalog, indexItems, remoteHist, remoteTag,
                 remotePending, dmRemote, landed, releases, scopes, loopVars,
                 artVars, repoVars, relVars, syncVars, ghostVars>>

\* The other request pushes: accepted as a fast-forward when the remote
\* still has the head it cloned, rejected otherwise.
RivalPush ==
  /\ job \in {"update", "discoveries"}
  /\ rival.base > 0 /\ rival.end = ""
  /\ LET head == IF job = "update" THEN Len(remoteHist) ELSE dmRemote
         done == head = rival.base IN
     /\ rival' = [rival EXCEPT !.end = IF done THEN "accepted"
                                       ELSE "rejected"]
     /\ remoteHist' = IF done /\ job = "update"
                      THEN Append(remoteHist,
                                  RivalCommit(Last(remoteHist).tree))
                      ELSE remoteHist
     /\ dmRemote' = IF done /\ job = "discoveries" THEN dmRemote + 1
                    ELSE dmRemote
  /\ UNCHANGED <<ctl, catalog, indexItems, remoteTag, remotePending, landed,
                 releases, scopes, loopVars, artVars, repoVars, relVars,
                 syncVars, ghostVars>>

(***************************************************************************)
(* The specification.                                                      *)
(***************************************************************************)
Next ==
  \/ Trigger
  \/ GetAccount
  \/ UpdCloneCatalog
  \/ UpdCloneClient
  \/ UpdLoadCatalog
  \/ UpdVirtualenv
  \/ UpdInstall
  \/ UpdLoopNext
  \/ UpdGenerate
  \/ UpdRemove
  \/ UpdCopyFile
  \/ UpdCopyDir
  \/ UpdGitAdd
  \/ UpdCommit
  \/ UpdReset
  \/ UpdAggregate
  \/ UpdRemoteAdd
  \/ UpdPush
  \/ RelClone
  \/ RelDescribe
  \/ RelLog
  \/ RelVersion
  \/ RelTag
  \/ RelRemoteAdd
  \/ RelPush
  \/ Land
  \/ SyncClone
  \/ SyncSymlink
  \/ SyncGenerate
  \/ SyncGitAdd
  \/ SyncCommit
  \/ SyncRemoteAdd
  \/ SyncPush

Spec == Init /\ [][Next]_vars

\* The update and the sync job with an overlapping request of the same
\* endpoint.
InitOverlap == Init /\ job \in {"update", "discoveries"}

NextOverlap ==
  \/ Trigger
  \/ GetAccount
  \/ UpdCloneCatalog
  \/ UpdCloneClient
  \/ UpdLoadCatalog
  \/ UpdVirtualenv
  \/ UpdInstall
  \/ UpdLoopNext
  \/ UpdGenerate
  \/ UpdRemove
  \/ UpdCopyFile
  \/ UpdCopyDir
  \/ UpdGitAdd
  \/ UpdCommit
  \/ UpdReset
  \/ UpdAggregate
  \/ UpdRemoteAdd
  \/ UpdPush
  \/ SyncClone
  \/ SyncSymlink
  \/ SyncGenerate
  \/ SyncGitAdd
  \/ SyncCommit
  \/ SyncRemoteAdd
  \/ SyncPush
  \/ RivalClone
  \/ RivalPush

SpecOverlap == InitOverlap /\ [][NextOverlap]_vars

(***************************************************************************)
(* Properties of the update job.                                           *)
(***************************************************************************)
IsInvoke(k) == events[k].what = "invoke"

IdAt(k) == filenames[events[k].i].id

\* C1: in one update run the generator is invoked at most once per
\* descriptor id, and only for the first file in enumeration order that
\* carries the id; every file the loop has passed has its id in processed,
\* also when the exclusion filter skipped it, so a later file with that id
\* is skipped.
C1_GeneratedOncePerId ==
  job = "update" =>
    /\ \A a, b \in DOMAIN events :
         (IsInvoke(a) /\ IsInvoke(b) /\ IdAt(a) = IdAt(b)) => a = b
    /\ \A a \in DOMAIN events :
         IsInvoke(a) =>
           \A j \in 1..(events[a].i - 1) : filenames[j].id # IdAt(a)
    /\ \A j \in 1..idx :
         /\ filenames[j].id \in processed
         /\ (\E i \in 1..(j - 1) : filenames[i].id = filenames[j].id)
              => \E k \in DOMAIN events :
                   events[k].i = j /\ events[k].what = "duplicate"

\* A run that generated one file, later skipped another file with the same
\* id, another name and another generated content, and pushed.
C1_Witness ==
  /\ job = "update" /\ pushed
  /\ \E a, b \in DOMAIN events :
       /\ IsInvoke(a)
       /\ events[b].what = "duplicate"
       /\ events[a].i < events[b].i
       /\ IdAt(a) = IdAt(b)
       /\ filenames[events[a].i].name # filenames[events[b].i].name
       /\ Generate(filenames[events[a].i]) # Generate(filenames[events[b].i])

\* The preferred flag of an id as index.json and the two overrides give
\* it: the last item of the id decides.
PreferredInIndex(id_) ==
  \/ id_ \in {"admin:directory_v1", "admin:datatransfer_v1"}
  \/ \E k \in DOMAIN indexItems :
       /\ indexItems[k].id = id_
       /\ indexItems[k].preferred
       /\ \A m \in (k + 1)..Len(indexItems) : indexItems[m].id # id_

\* C2: the generator is never invoked for a descriptor named 'discovery'
\* nor for one whose id is not preferred after the two overrides; the
\* condition reads the descriptor's own id and name only.
C2_NeverGeneratesExcluded ==
  job = "update" =>
    \A a \in DOMAIN events :
      IsInvoke(a) =>
        /\ filenames[events[a].i].name # "discovery"
        /\ PreferredInIndex(IdAt(a))

\* A run that skipped a non-preferred descriptor and generated
\* admin:directory_v1, which the index does not mark preferred.
C2_Witness ==
  /\ job = "update" /\ pc = "done"
  /\ \E a, b \in DOMAIN events :
       /\ events[a].what = "skip_not_preferred"
       /\ IsInvoke(b)
       /\ IdAt(b) = "admin:directory_v1"
       /\ \A k \in DOMAIN indexItems :
            indexItems[k].id = "admin:directory_v1"
              => ~indexItems[k].preferred

\* C3: a second update run that starts from what a successful first run
\* pushed, with the same catalog and generator, makes no intermediate
\* commit, no soft reset, no aggregate commit and no push.
C3_SecondRunMakesNoCommit ==
  (job = "update" /\ runs = 2 /\ prev.pc = "done" /\ prev.pushed) =>
    /\ commit_count = 0
    /\ resetBy = -1
    /\ ~pushed
    /\ failedAt # "git commit: nothing to commit"

\* The tree the run cloned.
ClonedTree == hist[clonedLen].tree

\* The file of the catalog an id was classified for: the first with the id.
FirstWith(id_) ==
  filenames[CHOOSE j \in 1..Len(filenames) :
              /\ filenames[j].id = id_
              /\ \A i \in 1..(j - 1) : filenames[i].id # id_]

\* C4: for every classified id, if its artifact was absent from the target
\* tree before the run and is present now the id is in added and not in
\* updated; if it was present before the run the id is in updated and not
\* in added.
C4_ClassificationExact ==
  (job = "update" /\ clonedLen > 0) =>
    \A id_ \in added \cup updated :
      LET name == Generate(FirstWith(id_)).service IN
      /\ (~Exists(ClonedTree, name) /\ Exists(tree, name))
           => (id_ \in added /\ id_ \notin updated)
      /\ Exists(ClonedTree, name)
           => (id_ \in updated /\ id_ \notin added)

\* C5: an update run with commit_count >= 1 in which no command failed
\* for an outside reason ends with the soft reset by commit_count and
\* exactly one commit on top of the cloned head, holding the working tree,
\* and that commit pushed.
C5_OneCommitOnClonedHead ==
  ( /\ job = "update" /\ commit_count >= 1
    /\ \/ pc = "done"
       \/ pc = "aborted" /\ failedAt = "git commit: nothing to commit" ) =>
    /\ resetBy = commit_count
    /\ Len(hist) = clonedLen + 1
    /\ Last(hist).tree = tree
    /\ pushed /\ remoteHist = hist

AggregatorSteps == {"u_reset", "u_aggregate", "u_remote", "u_push"}

BeforeAggregation ==
  {"_get_github_account", "git clone", "virtualenv", "setup.py install",
   "KeyError", "generate_library", "rm -rf", "cp", "cp -r", "git add"}

\* C6: while commit_count is 0 the run performs no soft reset, no
\* aggregate commit, no remote-add and no push; when the loop ends with
\* commit_count = 0 the handler returns, and the only errors of such a run
\* are failures of steps before the aggregation.
C6_NothingToDoIsNoOp ==
  (job = "update" /\ commit_count = 0) =>
    /\ pc \notin AggregatorSteps
    /\ resetBy = -1 /\ commitmsg = <<>> /\ ~remote_github /\ ~pushed
    /\ clonedLen > 0 => hist = remoteHist
    /\ (pc = "u_loop" /\ idx = Len(filenames)) => ~Aggregates(returncode)
    /\ pc = "aborted" => failedAt \in BeforeAggregation

\* A run over a non-empty catalog that generated an artifact without any
\* diff and returned.
C6_Witness ==
  /\ job = "update" /\ pc = "done" /\ commit_count = 0
  /\ idx = Len(filenames)
  /\ \E a, b \in DOMAIN events : IsInvoke(a) /\ ~IsInvoke(b)

PushSteps == {"u_push", "r_push", "s_push"}

\* C7: in the three jobs a failed must-succeed step ends the run there
\* without a push; the push step is reached only with every earlier
\* command succeeded, the credentials read and the remote added, and in
\* the update job only after the last descriptor.
C7_FailureMeansNoPush ==
  /\ cmdFailed => (pc = "aborted" /\ ~pushed)
  /\ pc = "aborted" =>
       /\ ~pushed
       /\ (job = "update" /\ clonedLen > 0)
            => remoteHist = SubSeq(hist, 1, clonedLen)
       /\ job = "release" => remoteTag \notin tags
       /\ job = "discoveries" => dmRemote < dmLocal \/ returncode # 0
  /\ (pc \in PushSteps \/ pushed) =>
       /\ ~cmdFailed
       /\ account /\ remote_github
       /\ job = "update" =>
            (idx = Len(filenames) /\ commit_count >= 1
             /\ resetBy = commit_count)
       /\ job = "release" => new_version \in tags
  /\ pushed => pc = "done"

\* An update run that failed at remote-add after two intermediate commits.
C7_Witness ==
  /\ job = "update" /\ pc = "aborted" /\ failedAt = "git remote add"
  /\ commit_count = 2 /\ ~pushed /\ remoteHist # hist

(***************************************************************************)
(* The aggregate commit message.                                           *)
(***************************************************************************)
LinesAt(k, t) == {n \in DOMAIN commitmsg : commitmsg[n] = Line(k, t)}

ItemLines == {n \in DOMAIN commitmsg : commitmsg[n].kind = "item"}

AddHeaders == LinesAt("header", "Add:")

UpdateHeaders == LinesAt("header", "Update:")

\* C8: the aggregate message starts with the title line of the run date;
\* it has one 'Add:' section exactly when added is non-empty and one
\* 'Update:' section exactly when updated is non-empty, Add first; the
\* items of a section are the ids of its set in ascending order, and each
\* classified id is on exactly one line.
C8_MessageLayout ==
  (job = "update" /\ commitmsg # <<>>) =>
    /\ commitmsg[1] = Line("title", Today)
    /\ Cardinality(AddHeaders) = (IF added # {} THEN 1 ELSE 0)
    /\ Cardinality(UpdateHeaders) = (IF updated # {} THEN 1 ELSE 0)
    /\ \A a \in AddHeaders, u \in UpdateHeaders : a < u
    /\ \A n \in ItemLines : commitmsg[n].text \in added \cup updated
    /\ \A id_ \in added \cup updated : Cardinality(LinesAt("item", id_)) = 1
    /\ \A n \in ItemLines :
         IF commitmsg[n].text \in added
         THEN /\ \E a \in AddHeaders : a < n
              /\ \A u \in UpdateHeaders : n < u
         ELSE \E u \in UpdateHeaders : u < n
    /\ \A n, m \in ItemLines :
         ( /\ n < m
           /\ (commitmsg[n].text \in added) = (commitmsg[m].text \in added) )
           => StrLess(commitmsg[n].text, commitmsg[m].text)

\* A pushed message with two ids under Add (classified in the other
\* order) and one under Update.
C8_Witness ==
  /\ job = "update" /\ pushed
  /\ added = {"admin:directory_v1", "cloudtrace:v2"}
  /\ updated = {"cloudtrace:v2beta1"}
  /\ filenames[1].id = "cloudtrace:v2"
  /\ Len(commitmsg) = 8

(***************************************************************************)
(* Properties of the release job.                                          *)
(***************************************************************************)
FirstDot(t) ==
  CHOOSE k \in 1..Len(t) : t[k] = "." /\ \A j \in 1..(k - 1) : t[j] # "."

MajorOf(t) == SubSeq(t, 1, FirstDot(t) - 1)

MinorOf(t) == SubSeq(t, FirstDot(t) + 1, Len(t))

\* t is latest with the same major prefix and the minor number one higher,
\* written in decimal without leading zeros.
IsNextMinor(t, latest) ==
  /\ \E k \in 1..Len(t) : t[k] = "."
  /\ MajorOf(t) = MajorOf(latest)
  /\ AllDigits(MinorOf(t))
  /\ int(MinorOf(t)) = int(MinorOf(latest)) + 1
  /\ Len(MinorOf(t)) > 1 => MinorOf(t)[1] # "0"

\* C9: the release job creates at most one tag, only for a latest tag
\* v<major>.<minor> with commits after it, and that tag is
\* v<major>.<minor+1>; a run that returns with commits after such a tag has
\* pushed it; with no commit after the latest tag no tag is created and
\* nothing is pushed.
C9_NextMinorTag ==
  job = "release" =>
    /\ Cardinality(tags) <= 1
    /\ \A t \in tags :
         output > 0 /\ Matches(latest_tag) /\ IsNextMinor(t, latest_tag)
    /\ pushed => (tags # {} /\ remoteTag \in tags)
    /\ (pc = "done" /\ output > 0) => pushed
    /\ output = 0 => (tags = {} /\ ~pushed /\ ~remote_github)
    /\ (pc = "done" /\ output = 0) => remoteTag = latest_tag

\* v0.9 with a commit after it was released as v0.10.
C9_Witness ==
  /\ job = "release" /\ pushed
  /\ latest_tag = <<"v", "0", ".", "9">>
  /\ remoteTag = <<"v", "0", ".", "1", "0">>

\* C10 as stated: whenever the latest tag read does not match the pattern
\* the release job ends in an error, with no tag created or pushed.
C10_NonMatchingTagAlwaysAborts ==
  (job = "release" /\ pc \in EndStates /\ latest_tag # <<>>
   /\ ~Matches(latest_tag)) =>
    (pc = "aborted" /\ tags = {} /\ ~pushed)

PatternError == "latest tag does not match the pattern"

\* C10 as amended: for a latest tag that does not match the pattern no
\* version is computed and no tag is created or pushed; with at least one
\* commit after the tag the job ends with the pattern error, and with none
\* it returns without checking the tag.
C10_NonMatchingTagNeverReleased ==
  (job = "release" /\ latest_tag # <<>> /\ ~Matches(latest_tag)) =>
    /\ new_version = <<>> /\ tags = {} /\ ~pushed /\ ~remote_github
    /\ pc \notin {"r_tag", "r_remote", "r_push"}
    /\ remoteTag = latest_tag
    /\ (pc \in EndStates /\ output > 0)
         => (pc = "aborted" /\ failedAt = PatternError)
    /\ pc = "done" => output = 0
    /\ failedAt = PatternError => output > 0

\* The job aborted on a non-matching tag with a commit after it.
C10_Witness ==
  /\ job = "release" /\ pc = "aborted" /\ failedAt = PatternError
  /\ ~Matches(latest_tag) /\ output > 0 /\ latest_tag[1] = "v"

RECURSIVE SumBatches(_)
SumBatches(rs) ==
  IF rs = <<>> THEN 0
  ELSE rs[Len(rs)].batch + SumBatches(SubSeq(rs, 1, Len(rs) - 1))

\* C11: every tag the release job pushed is the next minor version of the
\* tag before it and covers at least one commit that landed after that tag;
\* consecutive releases chain, and every landed commit is in at most one
\* batch, so the tag never advances more often than commits landed.  A run
\* that follows a pushed release and clones with no commit after the tag
\* creates no tag, adds no remote and pushes nothing.
C11_ReleaseIdempotent ==
  job = "release" =>
    /\ \A k \in DOMAIN releases :
         /\ releases[k].batch >= 1
         /\ Matches(releases[k].from)
         /\ IsNextMinor(releases[k].to, releases[k].from)
    /\ \A k \in 1..(Len(releases) - 1) :
         releases[k + 1].from = releases[k].to
    /\ releases # <<>> => remoteTag = Last(releases).to
    /\ SumBatches(releases) + remotePending = landed
    /\ Len(releases) <= landed
    /\ (prev.pushed /\ cloneTag # <<>> /\ ahead = 0) =>
         /\ tags = {} /\ ~remote_github /\ ~pushed
         /\ pc \notin {"r_tag", "r_remote", "r_push"}
         /\ remoteTag = cloneTag
         /\ (pc \in EndStates /\ ~cmdFailed) => pc = "done"

\* A release was pushed, and the run after it, started with no commit
\* landed in between, returned without a tag.
C11_Witness ==
  /\ job = "release" /\ runs = 2 /\ prev.pushed
  /\ pc = "done" /\ ahead = 0 /\ output = 0
  /\ Len(releases) = 1 /\ remotePending = 0
  /\ tags = {} /\ ~pushed

(***************************************************************************)
(* Properties of the three handlers.                                       *)
(***************************************************************************)
\* C12: on each endpoint a request without the X-Appengine-Cron header
\* ends rejected at once: the credentials are not read, no temporary
\* directory exists, nothing is cloned, committed or pushed, and the step
\* that rejects it leaves the remote repositories as they are.
C12_NoHeaderNoEffect ==
  /\ [](( ~header /\ pc # "idle" ) => ( pc = "rejected" /\ FreshLocals ))
  /\ [][ (runs' # runs /\ ~header') => UNCHANGED env ]_vars

\* A request without the header, rejected after a run that pushed.
C12_Witness ==
  /\ job = "update" /\ pc = "rejected" /\ ~header
  /\ runs = 2 /\ prev.pc = "done" /\ prev.pushed
  /\ Len(remoteHist) = 2

ScratchSteps == {"u_generate", "u_rm", "u_cp_file", "u_cp_dir"}

\* C13: when a run has ended, by return, no-op or abort at any step, its
\* temporary workspace no longer exists, and neither does a scratch
\* directory; the scratch directory of the update job exists only between
\* the generator call and the last copy of one descriptor's iteration,
\* inside the workspace, and the workspace exists during the whole run.
C13_WorkspaceRemoved ==
  /\ pc \in EndStates \cup {"idle"} => (~tmp_dir /\ ~tmp_dir2)
  /\ tmp_dir2 <=> (job = "update" /\ pc \in ScratchSteps)
  /\ tmp_dir2 => tmp_dir
  /\ pc \notin EndStates \cup {"idle", "account"} => tmp_dir

\* An update run aborted at the copy of its second artifact, after one
\* intermediate commit; both directories are gone.
C13_Witness ==
  /\ job = "update" /\ pc = "aborted" /\ failedAt = "cp"
  /\ commit_count = 1 /\ idx = 2
  /\ scratch # NoScratch
  /\ ~tmp_dir /\ ~tmp_dir2

\* A log line that holds the access token.
Secret(e) ==
  \/ e.kind = "output" /\ OutputHasToken(e.of)
  \/ e.kind = "exception" /\ CmdHasToken(e.of)

\* C14: in no state of any of the three jobs does the log hold the access
\* token, also after a command that handles the remote URL has failed.
C14_TokenNeverLogged == \A e \in log : ~Secret(e)

(***************************************************************************)
(* Properties of the catalog sync job.                                     *)
(***************************************************************************)
\* C15: the sync job makes its commit exactly when the regenerated catalog
\* differs from the cloned one; the remote is added and the push done only
\* after that commit, and a run that committed and returned has pushed it;
\* with an unchanged catalog the job adds no remote, pushes nothing and
\* returns.
C15_SyncCommitsIffChanged ==
  job = "discoveries" =>
    /\ returncode = -1 =>
         (dmLocal \in {0, clonedLen} /\ ~remote_github /\ ~pushed)
    /\ returncode = 0 => (dmDirty /\ dmLocal = clonedLen + 1)
    /\ returncode = 1 =>
         /\ ~dmDirty /\ dmLocal = clonedLen
         /\ ~remote_github /\ ~pushed /\ dmRemote = clonedLen
         /\ pc = "done"
    /\ returncode \in {-1, 0, 1}
    /\ (pc \in {"s_remote", "s_push"} \/ remote_github) => returncode = 0
    /\ pushed => (returncode = 0 /\ dmRemote = dmLocal)
    /\ (pc = "done" /\ returncode = 0) => pushed

\* A sync run pushed a changed catalog, and the run after it found the
\* catalog unchanged and returned.
C15_Witness ==
  /\ job = "discoveries" /\ runs = 2 /\ prev.pc = "done" /\ prev.pushed
  /\ pc = "done" /\ returncode = 1 /\ dmRemote = 2 /\ dmLocal = 2

(***************************************************************************)
(* Further properties of the update job.                                   *)
(***************************************************************************)
\* The files the loop has taken whose id the index and the overrides do
\* not mark preferred (the first file of each id, not named 'discovery').
NotPreferredFiles ==
  { j \in 1..idx :
      /\ filenames[j].name # "discovery"
      /\ \A i \in 1..(j - 1) : filenames[i].id # filenames[j].id
      /\ ~PreferredInIndex(filenames[j].id) }

\* C16: every descriptor whose id is not marked preferred is skipped and
\* the run goes on with the next descriptor, also when the id does not
\* appear in the index at all.
C16_NotPreferredIsSkipped ==
  job = "update" =>
    /\ \A j \in NotPreferredFiles :
         \E k \in DOMAIN events : events[k] = Event(j, "skip_not_preferred")
    /\ failedAt # "KeyError"

\* The same for the descriptors whose id has an entry in the index.
C16_ListedNotPreferredIsSkipped ==
  job = "update" =>
    /\ \A j \in NotPreferredFiles :
         filenames[j].id \in DOMAIN preferred =>
           \E k \in DOMAIN events : events[k] = Event(j, "skip_not_preferred")
    /\ failedAt = "KeyError" =>
         /\ pc = "aborted"
         /\ filenames[idx].id \notin DOMAIN LoadPreferred(indexItems)

ReplaceSteps == {"u_rm", "u_cp_file", "u_cp_dir", "u_add"}

\* The services some descriptor of this run was generated as.
GeneratedServices ==
  { Generate(filenames[events[k].i]).service :
      k \in {n \in DOMAIN events : IsInvoke(n)} }

\* C17: when the replace of one descriptor is done, the artifact of the
\* derived name in the target tree is the scratch output, file and
\* directory, with nothing else in it; during and after the replace every
\* other artifact is as it was before the iteration; and an artifact that
\* no descriptor of the run was generated as is the cloned one in the
\* working tree and in every commit of the run.
C17_ReplacesOneArtifact ==
  (job = "update" /\ clonedLen > 0) =>
    /\ pc = "u_add" =>
         tree[service_name] = [php |-> scratch.php, dir |-> scratch.dir]
    /\ pc \in ReplaceSteps =>
         \A s \in Services \ {scratch.service} : tree[s] = staged[s]
    /\ \A s \in Services \ GeneratedServices :
         /\ tree[s] = ClonedTree[s]
         /\ \A k \in clonedLen..Len(hist) : hist[k].tree[s] = ClonedTree[s]
         /\ pushed => Last(remoteHist).tree[s] = ClonedTree[s]

\* CloudTrace was there with other content and has been replaced by the
\* generated one, next to an artifact the catalog does not describe.
C17_Witness ==
  /\ job = "update" /\ pc = "u_add" /\ service_exists
  /\ service_name = "CloudTrace"
  /\ staged["CloudTrace"] = Artifact("c1")
  /\ tree["CloudTrace"] = Artifact("c2")
  /\ tree["Legacy"] = Artifact("c1")

(***************************************************************************)
(* Two overlapping requests of the same endpoint.                          *)
(***************************************************************************)
\* The other request has cloned the head this request has cloned.
Paired == rival.base > 0 /\ rival.base = clonedLen

\* C18: a request runs git push at most once, and a push that is not
\* accepted ends it in an error; of two requests that cloned the same head
\* at most one has its push accepted, and the rejected one leaves on the
\* remote what the other pushed; the remote branch is the cloned history
\* with at most one commit on it, the aggregate commit of one of the two
\* requests, and never a commit with the empty message.
C18_OverlapMeetsAtRemote ==
  (job \in {"update", "discoveries"} /\ clonedLen > 0) =>
    /\ Len(pushes) <= 1
    /\ pushes # <<>> =>
         /\ pc = (IF pushes[1] = "accepted" THEN "done" ELSE "aborted")
         /\ pushed <=> pushes[1] = "accepted"
         /\ pushes[1] # "accepted" => failedAt = "git push"
    /\ Paired => ~(pushed /\ rival.end = "accepted")
    /\ pushes = <<"rejected">> => (~pushed /\ rival.end = "accepted")
    /\ job = "update" =>
         /\ \A k \in DOMAIN remoteHist : remoteHist[k].msg # EmptyMessage
         /\ Len(remoteHist) \in {clonedLen, clonedLen + 1}
         /\ SubSeq(remoteHist, 1, clonedLen) = SubSeq(hist, 1, clonedLen)
         /\ Len(remoteHist) = clonedLen + 1 =>
              IF pushed
              THEN remoteHist = hist
              ELSE /\ rival.end = "accepted"
                   /\ Last(remoteHist) = RivalCommit(ClonedTree)
    /\ job = "discoveries" =>
         /\ dmRemote \in {clonedLen, clonedLen + 1}
         /\ dmRemote = clonedLen + 1 =>
              IF pushed THEN dmRemote = dmLocal ELSE rival.end = "accepted"

\* Both requests cloned the same head; the other one pushed first, and
\* the push of this one, with two artifacts in its commit, was rejected.
C18_Witness ==
  /\ job = "update" /\ Paired /\ rival.end = "accepted"
  /\ pc = "aborted" /\ pushes = <<"rejected">>
  /\ commit_count = 2
  /\ Len(hist) = clonedLen + 1
  /\ Last(hist).tree # Last(remoteHist).tree
  /\ Last(remoteHist) = RivalCommit(ClonedTree)

(***************************************************************************)
(* The run state of the update job.                                        *)
(***************************************************************************)
\* C19: in every state of an update run added and updated are disjoint
\* subsets of processed, commit_count is the number of ids in them and the
\* number of commits the run has put on the cloned history before the
\* reset, and returncode is 0 exactly when commit_count >= 1 (and -1
\* otherwise); the soft reset is issued only with commit_count >= 1 and
\* goes back exactly the commits of the run.
C19_RunStateConsistent ==
  job = "update" =>
    /\ added \cap updated = {}
    /\ added \subseteq processed /\ updated \subseteq processed
    /\ commit_count = Cardinality(added) + Cardinality(updated)
    /\ returncode = 0 <=> commit_count >= 1
    /\ returncode \in {-1, 0}
    /\ (clonedLen > 0 /\ resetBy = -1) => Len(hist) = clonedLen + commit_count
    /\ pc \in AggregatorSteps => commit_count >= 1
    /\ resetBy # -1 =>
         /\ resetBy = commit_count /\ resetBy >= 1
         /\ SubSeq(hist, 1, clonedLen) = SubSeq(remoteHist, 1, clonedLen)
         /\ Len(hist) \in {clonedLen, clonedLen + 1}

\* A run with one id added and one updated has reset its two commits.
C19_Witness ==
  /\ job = "update" /\ pc = "u_aggregate" /\ resetBy = 2
  /\ Cardinality(added) = 1 /\ Cardinality(updated) = 1
  /\ Cardinality(processed) = 3
  /\ Len(hist) = clonedLen

=============================================================================
